---- MODULE Spec2Model ----
(***************************************************************************)
(* Kafal Cooperative: the UPI payment routes (generate / confirm / receipt  *)
(* / status) and the member-request approval route, as state machines over *)
(* the tables they read and write.                                         *)
(*                                                                         *)
(* Every awaited database call of a handler is one step.  getOne and       *)
(* executeQuery of config/database.js take (query, params) and run the     *)
(* statement on the pool (pool.execute): a third `connection` argument is  *)
(* dropped, so each statement is its own autocommitted unit and the        *)
(* connection that transaction() begins, commits or rolls back never       *)
(* carries a statement.  The payments route calls its statement executor   *)
(* `query`; database.js exports that executor under the name executeQuery, *)
(* and the model takes `query` to be it.                                   *)
(*                                                                         *)
(* Any statement may fail (connection loss, constraint or schema           *)
(* rejection): the failing variant of a step writes nothing and throws.    *)
(* Money is in whole rupees, time in minutes.                              *)
(***************************************************************************)
EXTENDS Integers, Sequences, FiniteSets, TLC

\* ---------------------------------------------------------------- bounds
MaxTime == 60
TickStep == 30
MaxRequests == 2
NumCalls == 2
MaxFaults == 1
NumLogins == 2
MaxSockets == 6
MaxTimers == 5

NumApprovals == 2

\* ------------------------------------------------------- program constants
ExpiryMinutes == 30
EntryFeeThreshold == 200
WelfareFundThreshold == 400
BuildingFundThreshold == 2400
ShareUnit == 100
MinAmount == 1
PaisePerRupee == 100
MaxFailedAttempts == 5
\* Interest rates of POST /create, percent per year, and the quarters of a year.
SavingsRate == 4
CurrentRate == 0
QuartersPerYear == 4
\* principal_amount of the deposits created (isFloat({min: 1000})).
Principals == {1000000}

LockoutMinutes == 15
DefaultShareCount == 2
DefaultShareValue == 200

\* Math.floor(Math.random() * 1000) and Math.floor(Math.random() * 100): the
\* suffixes a run draws from.
TidSuffixes == {0}
RcpSuffixes == {0}

Purposes == {"membership_fee", "share_purchase", "loan_repayment", "deposit", "other"}

VARIABLES
    now,                   \* the clock read by new Date() / NOW()
    members,               \* table members, indexed by id (AUTO_INCREMENT)
    upi_payment_requests,  \* table upi_payment_requests, indexed by request_id
    transactions,          \* table transactions, in insertion order
    payment_receipts,      \* table payment_receipts, in insertion order
    member_requests,       \* table member_requests, indexed by request_id
    approval,              \* the approve and reject calls on member requests, one record each
    calls,                 \* the POST /upi/confirm calls in flight, one record each
    faults,                \* statements that have failed so far
    txn_log,               \* history: for each transactions row, the call that wrote it
    commits,               \* history: number of members UPDATEs committed so far
    response,              \* the last response of generate and of the read routes
    admins,                \* the row of table admins that POST /admin/login selects
    logins,                \* the POST /admin/login calls in flight, one record each
    server,                \* the server process: start-up position and exit code
    loans,                 \* table loans, indexed by loan_id
    loan_calls,            \* the approve, reject and disburse calls on loans, one record each
    loan_transactions,     \* rows of table transactions with reference_type 'Loan'
    deposits,              \* table deposits, indexed by deposit_id
    deposit_calls,         \* the credit-interest and close calls, one record each
    deposit_transactions,  \* rows of table transactions with reference_type 'Deposit'
    api,                   \* the KafalAPI object of one page and its request in flight
    realtime               \* the RealtimeClient object of one page and its timers

\* The state of the payment and approval routes.
paymentVars == <<members, upi_payment_requests, transactions, payment_receipts,
                 member_requests, approval, calls, txn_log, commits, response>>
adminVars == <<admins, logins>>
serverVars == <<server>>
\* The state of the other routes and of the clients.
loanVars == <<loans, loan_calls, loan_transactions>>
depositVars == <<deposits, deposit_calls, deposit_transactions>>
clientVars == <<api, realtime>>
extVars == <<adminVars, serverVars, loanVars, depositVars, clientVars>>
nonAdminVars == <<paymentVars, serverVars, loanVars, depositVars, clientVars>>
nonServerVars == <<paymentVars, adminVars, loanVars, depositVars, clientVars>>
nonLoanVars == <<paymentVars, adminVars, serverVars, depositVars, clientVars>>
nonDepositVars == <<paymentVars, adminVars, serverVars, loanVars, clientVars>>
nonClientVars == <<paymentVars, adminVars, serverVars, loanVars, depositVars>>

vars == <<now, faults, paymentVars, extVars>>

Calls == 1..NumCalls

NoRow == [request_id |-> 0]

\* A row of members with the column defaults of the schema.
NewMember(balance, status) ==
    [balance |-> balance,
     share_count |-> DefaultShareCount,
     share_value |-> DefaultShareValue,
     membership_fees_paid |-> 0,
     entry_fee_paid |-> FALSE,
     welfare_fund_paid |-> FALSE,
     building_fund_paid |-> FALSE,
     status |-> status]

\* A row of admins as the login route reads it: an active account that has
\* never failed a login.  account_locked_until NULL is NoLock.
NoLock == -1
NewAdmin ==
    [status |-> "Active", failed_login_attempts |-> 0, account_locked_until |-> NoLock]

\* node server.js has run up to the call of testConnection().
NoExit == -1
Booting == [pc |-> "testing", connected |-> FALSE, exit_code |-> NoExit]

Logins == 1..NumLogins
IdleLogin ==
    [pc |-> "idle", found |-> FALSE, password_ok |-> FALSE, admin |-> NewAdmin,
     outcome |-> "none"]

\* No request has been answered yet.
NoResponse == [route |-> "none"]

IdleCall ==
    [pc |-> "idle", caller |-> 0, transaction_id |-> <<0, 0>>, paymentRequest |-> NoRow,
     outcome |-> "none", late |-> FALSE, pre_balance |-> 0, own_balance |-> 0,
     commit_no |-> 0]

Approvals == 1..NumApprovals
IdleApproval ==
    [pc |-> "idle", kind |-> "none", request_id |-> 0, insertId |-> 0, txn_index |-> 0,
     outcome |-> "none"]

\* VALUES (..., 'savings', 1000, '', 'pending', NOW()) of the Google sign-up route
InitialDeposit == 1000

\* A loan call that has not started; row_status is the status its SELECT read.
NumLoanCalls == 2
MaxLoans == 1
LoanCalls == 1..NumLoanCalls
IdleLoanCall ==
    [pc |-> "idle", kind |-> "none", loan_id |-> 0, row_status |-> "none",
     outcome |-> "none"]

\* A deposit call that has not started; row_balance is the current_balance its
\* SELECT read.
NumDepositCalls == 2
MaxDeposits == 1
DepositCalls == 1..NumDepositCalls
IdleDepositCall ==
    [pc |-> "idle", kind |-> "none", deposit_id |-> 0, row_balance |-> 0,
     outcome |-> "none"]

\* new KafalAPI() on a page whose localStorage holds no tokens.
NewKafalAPI ==
    [token |-> "none", refreshToken |-> "none", pc |-> "idle", method |-> "none",
     fetches |-> 0, refreshes |-> 0, outcome |-> "none"]

\* this.maxReconnectAttempts, this.reconnectDelay (milliseconds)
MaxReconnectAttempts == 5
ReconnectDelay == 1000
\* The delays attemptReconnect can pass to setTimeout.
Delays == {ReconnectDelay * n : n \in 1..MaxReconnectAttempts}

\* new RealtimeClient(): no socket, not connected, no reconnect scheduled.
\* sockets counts the sockets connect() has created, connecting and connected
\* those in each state, timers the pending setTimeout callbacks per delay.
\* scheduled and disconnects are history: the reconnects scheduled and the
\* 'disconnect' events handled since the last 'connect' event.
NewRealtimeClient ==
    [sockets |-> 0, connecting |-> 0, connected |-> 0,
     isConnected |-> FALSE, reconnectAttempts |-> 0,
     timers |-> [d \in Delays |-> 0], scheduled |-> 0, disconnects |-> 0]

Init ==
    /\ now = 0
    /\ members = <<NewMember(0, "pending_payment"), NewMember(0, "pending_payment")>>
    /\ upi_payment_requests = <<>>
    /\ transactions = <<>>
    /\ payment_receipts = <<>>
    /\ member_requests = <<[status |-> "pending", initial_deposit |-> InitialDeposit]>>
    /\ approval = [k \in Approvals |-> IdleApproval]
    /\ calls = [h \in Calls |-> IdleCall]
    /\ faults = 0
    /\ txn_log = <<>>
    /\ commits = 0
    /\ response = NoResponse
    /\ admins = NewAdmin
    /\ logins = [l \in Logins |-> IdleLogin]
    /\ server = Booting
    /\ loans = <<>>
    /\ loan_calls = [c \in LoanCalls |-> IdleLoanCall]
    /\ loan_transactions = <<>>
    /\ deposits = <<>>
    /\ deposit_calls = [c \in DepositCalls |-> IdleDepositCall]
    /\ deposit_transactions = <<>>
    /\ api = NewKafalAPI
    /\ realtime = NewRealtimeClient

\* ------------------------------------------------------------------ clock
Tick ==
    /\ now + TickStep <= MaxTime
    /\ now' = now + TickStep
    /\ UNCHANGED <<extVars, response, members, upi_payment_requests, transactions,
                   payment_receipts, member_requests, approval, calls, faults, txn_log,
                   commits>>

\* A statement either executes (ok) or fails; failures are bounded.
Statement(ok) ==
    /\ ~ok => faults < MaxFaults
    /\ faults' = IF ok THEN faults ELSE faults + 1

\* --------------------------------------------------- POST /upi/generate
\* body('amount').isFloat({min: 1}), body('purpose').isIn([...])
ValidGenerate(amount, purpose) == amount >= 1 /\ purpose \in Purposes

\* `KCS${Date.now()}${Math.floor(Math.random() * 1000)}`
TransactionId(t, r) == <<t, r>>

\* An expiry that is the creation time itself.
ExpiresAtOnce(t) == t

\* expiresAt.setMinutes(expiresAt.getMinutes() + 30)
ExpiresAt(t) == t + ExpiryMinutes

\* The column without its UNIQUE index: no INSERT is ever refused.
TransactionIdNeverTaken(tid) == FALSE

\* transaction_id VARCHAR(50) UNIQUE NOT NULL
TransactionIdTaken(tid) ==
    \E i \in 1..Len(upi_payment_requests) : upi_payment_requests[i].transaction_id = tid

NewRequest(memberId, tid, amount, purpose, t) ==
    [request_id |-> Len(upi_payment_requests) + 1,
     member_id |-> memberId,
     transaction_id |-> tid,
     amount |-> amount,
     purpose |-> purpose,
     payment_status |-> "pending",
     receipt_generated |-> FALSE,
     expires_at |-> ExpiresAt(t),
     paid_at |-> -1,
     created_at |-> t]

\* res.json({success: true, data: {...}}), or the 500 of the catch block when
\* the INSERT (or the SELECT of the member) throws.
GenerateReply(stored, tid, amount, purpose, t) ==
    IF stored
    THEN [status |-> 200, message |-> "UPI payment request generated successfully",
          data |-> [transaction_id |-> tid, amount |-> amount, purpose |-> purpose,
                    expires_at |-> ExpiresAt(t)]]
    ELSE [status |-> 500, message |-> "Failed to generate UPI payment request",
          data |-> NoRow]

Generate(memberId, amount, purpose, r, ok) ==
    /\ Len(upi_payment_requests) < MaxRequests
    /\ ValidGenerate(amount, purpose)
    /\ Statement(ok)
    /\ IF ok /\ ~TransactionIdTaken(TransactionId(now, r))
       THEN upi_payment_requests' =
                Append(upi_payment_requests,
                       NewRequest(memberId, TransactionId(now, r), amount, purpose, now))
       ELSE UNCHANGED upi_payment_requests
    /\ response' = [route |-> "generate", caller |-> memberId,
                    key |-> TransactionId(now, r),
                    reply |-> GenerateReply(ok /\ ~TransactionIdTaken(TransactionId(now, r)),
                                            TransactionId(now, r), amount, purpose, now)]
    /\ UNCHANGED <<extVars, now, members, transactions, payment_receipts, member_requests, approval,
                   calls, txn_log, commits>>

\* The validation chain in front of the handler.  A body amount is
\* [numeric, paise]: whether the text is a decimal number, and its value in
\* hundredths of a rupee, the resolution of the DECIMAL(12,2) column.
IsFloatMin(amount, min) == amount.numeric /\ amount.paise >= min * PaisePerRupee

\* validationResult(req).isEmpty()
ValidationPasses(amount, purpose) ==
    IsFloatMin(amount, MinAmount) /\ purpose \in Purposes

\* The route: 400 'Validation failed' before anything is read or written,
\* otherwise the handler.  The accepted amounts of the model are whole rupees.
PostGenerate(memberId, amount, purpose, r, ok) ==
    IF ValidationPasses(amount, purpose)
    THEN Generate(memberId, amount.paise \div PaisePerRupee, purpose, r, ok)
    ELSE /\ response' = [route |-> "generate", caller |-> memberId,
                         key |-> [amount |-> amount, purpose |-> purpose],
                         reply |-> [status |-> 400, message |-> "Validation failed",
                                    data |-> NoRow]]
         /\ UNCHANGED <<extVars, now, members, upi_payment_requests, transactions,
                        payment_receipts, member_requests, approval, calls, faults,
                        txn_log, commits>>

\* ---------------------------------------------------- POST /upi/confirm
\* transaction(): getConnection, beginTransaction, callback, then commit, or
\* rollback on a throw.  No statement of the callback runs on that connection,
\* so neither commit nor rollback changes a table.
SetCall(h, rec) == [calls EXCEPT ![h] = rec]

Finish(h, outcome) == SetCall(h, [calls[h] EXCEPT !.pc = "done", !.outcome = outcome])

\* Mutant of SelectsRow: the status filter is missing from the WHERE clause.
SelectsRowAnyStatus(row, tid) == row.transaction_id = tid

\* SELECT * FROM upi_payment_requests
\* WHERE transaction_id = ? AND payment_status = 'pending'
SelectsRow(row, tid) == row.transaction_id = tid /\ row.payment_status = "pending"

\* getOne: rows[0] || null
PendingRequest(reqs, tid) ==
    LET S == {i \in 1..Len(reqs) : SelectsRow(reqs[i], tid)}
    IN  IF S = {} THEN NoRow ELSE reqs[CHOOSE i \in S : \A j \in S : i <= j]

\* new Date() > new Date(paymentRequest.expires_at)
Expired(t, row) == t > row.expires_at

\* Mutant of MarkExpired: the error is thrown without the UPDATE taking effect.
MarkExpiredLost(reqs, rid) == reqs

\* UPDATE upi_payment_requests SET payment_status = 'expired' WHERE request_id = ?
MarkExpired(reqs, rid) == [reqs EXCEPT ![rid].payment_status = "expired"]

\* UPDATE upi_payment_requests SET payment_status = 'completed', ..., paid_at = NOW()
\* WHERE request_id = ?
MarkCompleted(reqs, rid, t) ==
    [reqs EXCEPT ![rid].payment_status = "completed", ![rid].paid_at = t]

\* UPDATE upi_payment_requests SET receipt_generated = TRUE WHERE request_id = ?
MarkReceiptGenerated(reqs, rid) == [reqs EXCEPT ![rid].receipt_generated = TRUE]

\* Mutant of MembershipFeeUpdate: the fee is also credited to the balance.
MembershipFeeCreditsBalance(m, amount) ==
    [m EXCEPT !.membership_fees_paid = @ + amount,
              !.balance = @ + amount,
              !.entry_fee_paid = IF amount >= EntryFeeThreshold THEN TRUE ELSE @,
              !.welfare_fund_paid = IF amount >= WelfareFundThreshold THEN TRUE ELSE @,
              !.building_fund_paid = IF amount >= BuildingFundThreshold THEN TRUE ELSE @,
              !.status = IF amount >= BuildingFundThreshold
                         THEN "active" ELSE "pending_payment"]

\* Mutant of MembershipFeeUpdate: a threshold is reached only above its amount.
MembershipFeeAboveThreshold(m, amount) ==
    [m EXCEPT !.membership_fees_paid = @ + amount,
              !.entry_fee_paid = IF amount > EntryFeeThreshold THEN TRUE ELSE @,
              !.welfare_fund_paid = IF amount > WelfareFundThreshold THEN TRUE ELSE @,
              !.building_fund_paid = IF amount > BuildingFundThreshold THEN TRUE ELSE @,
              !.status = IF amount > BuildingFundThreshold
                         THEN "active" ELSE "pending_payment"]

\* updateMemberForPayment: the UPDATE members statement of each purpose
MembershipFeeUpdate(m, amount) ==
    [m EXCEPT !.membership_fees_paid = @ + amount,
              !.entry_fee_paid = IF amount >= EntryFeeThreshold THEN TRUE ELSE @,
              !.welfare_fund_paid = IF amount >= WelfareFundThreshold THEN TRUE ELSE @,
              !.building_fund_paid = IF amount >= BuildingFundThreshold THEN TRUE ELSE @,
              !.status = IF amount >= BuildingFundThreshold
                         THEN "active" ELSE "pending_payment"]

\* Mutant of SharePurchaseUpdate: a started share unit counts as a share.
SharePurchaseRoundsUp(m, amount) ==
    [m EXCEPT !.share_count = @ + ((amount + ShareUnit - 1) \div ShareUnit),
              !.share_value = @ + amount,
              !.balance = @ + amount]

\* const sharesToAdd = Math.floor(amount / 100)
SharePurchaseUpdate(m, amount) ==
    [m EXCEPT !.share_count = @ + (amount \div ShareUnit),
              !.share_value = @ + amount,
              !.balance = @ + amount]

BalanceUpdate(m, amount) == [m EXCEPT !.balance = @ + amount]

UpdateMember(m, amount, purpose) ==
    CASE purpose = "membership_fee" -> MembershipFeeUpdate(m, amount)
      [] purpose = "share_purchase" -> SharePurchaseUpdate(m, amount)
      [] purpose = "deposit" -> BalanceUpdate(m, amount)
      [] purpose = "loan_repayment" -> BalanceUpdate(m, amount)
      [] OTHER -> BalanceUpdate(m, amount)

\* INSERT INTO transactions (...) VALUES (?, 'credit', ?, ?,
\*     (SELECT balance FROM members WHERE id = ?), NOW())
TransactionRecord(row, mems, t) ==
    [member_id |-> row.member_id,
     transaction_type |-> "credit",
     amount |-> row.amount,
     description |-> row.purpose,
     balance_after |-> mems[row.member_id].balance,
     created_at |-> t]

\* `RCP${Date.now()}${Math.floor(Math.random() * 100)}`
ReceiptNumber(t, r) == <<t, r>>

\* receipt_number VARCHAR(50) UNIQUE NOT NULL
ReceiptNumberTaken(n) ==
    \E i \in 1..Len(payment_receipts) : payment_receipts[i].receipt_number = n

Receipt(row, n, t) ==
    [payment_request_id |-> row.request_id,
     member_id |-> row.member_id,
     receipt_number |-> n,
     amount |-> row.amount,
     payment_date |-> t,
     purpose |-> row.purpose]

\* History: some call on this transaction id has already returned 200.
Succeeded(tid) ==
    \E g \in Calls : calls[g].outcome = "completed" /\ calls[g].transaction_id = tid

\* The route handler is entered (caller is req.user.id of the bearer token) and
\* transaction() begins.
ConfirmStart(h, tid, caller) ==
    /\ calls[h].pc = "idle"
    /\ \A g \in Calls : g < h => calls[g].pc # "idle"   \* calls are interchangeable
    /\ calls' = SetCall(h, [calls[h] EXCEPT !.pc = "select", !.transaction_id = tid,
                                            !.caller = caller,
                                            !.late = Succeeded(tid)])
    /\ UNCHANGED <<extVars, response, now, members, upi_payment_requests, transactions, payment_receipts,
                   member_requests, approval, faults, txn_log, commits>>

\* getOne(SELECT ... pending), then the null check and the expiry check.
ConfirmSelect(h, ok) ==
    /\ calls[h].pc = "select"
    /\ Statement(ok)
    /\ LET row == PendingRequest(upi_payment_requests, calls[h].transaction_id)
       IN  calls' =
             IF ~ok THEN Finish(h, "error")
             ELSE IF row = NoRow THEN Finish(h, "not_found")
             ELSE SetCall(h, [calls[h] EXCEPT
                     !.pc = IF Expired(now, row) THEN "expire" ELSE "complete",
                     !.paymentRequest = row,
                     !.pre_balance = members[row.member_id].balance])
    /\ UNCHANGED <<extVars, response, now, members, upi_payment_requests, transactions, payment_receipts,
                   member_requests, approval, txn_log, commits>>

\* The UPDATE ... 'expired', then throw new Error('Payment request has expired').
ConfirmExpire(h, ok) ==
    /\ calls[h].pc = "expire"
    /\ Statement(ok)
    /\ upi_payment_requests' =
           IF ok THEN MarkExpired(upi_payment_requests, calls[h].paymentRequest.request_id)
           ELSE upi_payment_requests
    /\ calls' = Finish(h, IF ok THEN "expired" ELSE "error")
    /\ UNCHANGED <<extVars, response, now, members, transactions, payment_receipts, member_requests, approval,
                   txn_log, commits>>

\* The UPDATE ... 'completed'.
ConfirmComplete(h, ok) ==
    /\ calls[h].pc = "complete"
    /\ Statement(ok)
    /\ upi_payment_requests' =
           IF ok THEN MarkCompleted(upi_payment_requests,
                                    calls[h].paymentRequest.request_id, now)
           ELSE upi_payment_requests
    /\ calls' = IF ok THEN SetCall(h, [calls[h] EXCEPT !.pc = "member"])
                ELSE Finish(h, "error")
    /\ UNCHANGED <<extVars, response, now, members, transactions, payment_receipts, member_requests, approval,
                   txn_log, commits>>

\* updateMemberForPayment: the UPDATE members of the request's purpose.
ConfirmMember(h, ok) ==
    /\ calls[h].pc = "member"
    /\ Statement(ok)
    /\ LET row == calls[h].paymentRequest
           m == UpdateMember(members[row.member_id], row.amount, row.purpose)
       IN  IF ok
           THEN /\ members' = [members EXCEPT ![row.member_id] = m]
                /\ commits' = commits + 1
                /\ calls' = SetCall(h, [calls[h] EXCEPT !.pc = "record",
                                                        !.own_balance = m.balance,
                                                        !.commit_no = commits + 1])
           ELSE /\ calls' = Finish(h, "error")
                /\ UNCHANGED <<members, commits>>
    /\ UNCHANGED <<extVars, response, now, upi_payment_requests, transactions, payment_receipts,
                   member_requests, approval, txn_log>>

\* updateMemberForPayment: the INSERT INTO transactions.
ConfirmRecord(h, ok) ==
    /\ calls[h].pc = "record"
    /\ Statement(ok)
    /\ LET row == calls[h].paymentRequest
       IN  IF ok
           THEN /\ transactions' = Append(transactions, TransactionRecord(row, members, now))
                /\ txn_log' = Append(txn_log, [call |-> h,
                                               request_id |-> row.request_id,
                                               pre_balance |-> calls[h].pre_balance,
                                               own_balance |-> calls[h].own_balance,
                                               commit_no |-> calls[h].commit_no])
                /\ calls' = SetCall(h, [calls[h] EXCEPT !.pc = "receipt"])
           ELSE /\ calls' = Finish(h, "error")
                /\ UNCHANGED <<transactions, txn_log>>
    /\ UNCHANGED <<extVars, response, now, members, upi_payment_requests, payment_receipts,
                   member_requests, approval, commits>>

\* The INSERT INTO payment_receipts.
ConfirmReceipt(h, r, ok) ==
    /\ calls[h].pc = "receipt"
    /\ Statement(ok)
    /\ LET row == calls[h].paymentRequest
           n == ReceiptNumber(now, r)
       IN  IF ok /\ ~ReceiptNumberTaken(n)
           THEN /\ payment_receipts' = Append(payment_receipts, Receipt(row, n, now))
                /\ calls' = SetCall(h, [calls[h] EXCEPT !.pc = "flag"])
           ELSE /\ calls' = Finish(h, "error")
                /\ UNCHANGED payment_receipts
    /\ UNCHANGED <<extVars, response, now, members, upi_payment_requests, transactions, member_requests, approval,
                   txn_log, commits>>

\* The UPDATE ... receipt_generated = TRUE; the callback returns, commit, 200.
ConfirmFlag(h, ok) ==
    /\ calls[h].pc = "flag"
    /\ Statement(ok)
    /\ upi_payment_requests' =
           IF ok THEN MarkReceiptGenerated(upi_payment_requests,
                                           calls[h].paymentRequest.request_id)
           ELSE upi_payment_requests
    /\ calls' = Finish(h, IF ok THEN "completed" ELSE "error")
    /\ UNCHANGED <<extVars, response, now, members, transactions, payment_receipts, member_requests, approval,
                   txn_log, commits>>

\* The transaction ids a caller may send: those issued so far and an unknown one.
KnownIds == {upi_payment_requests[i].transaction_id : i \in 1..Len(upi_payment_requests)}
UnknownId == <<MaxTime + 1, 0>>

ConfirmStep(h, ok) ==
    \/ ConfirmSelect(h, ok)
    \/ ConfirmExpire(h, ok)
    \/ ConfirmComplete(h, ok)
    \/ ConfirmMember(h, ok)
    \/ ConfirmRecord(h, ok)
    \/ \E r \in RcpSuffixes : ConfirmReceipt(h, r, ok)
    \/ ConfirmFlag(h, ok)

\* ---------------------------------------------------------------------------
\* GET /upi/receipt/:receipt_number and GET /upi/status/:transaction_id
\* ---------------------------------------------------------------------------

\* The three replies a read route can give.  data is the selected row.
Reply(status, message, data) == [status |-> status, message |-> message, data |-> data]

\* WHERE pr.receipt_number = ? with the member filter left out.
SelectsReceiptOfAnyone(row, n, memberId) == row.receipt_number = n

\* WHERE pr.receipt_number = ? AND pr.member_id = ?
SelectsReceipt(row, n, memberId) ==
    row.receipt_number = n /\ row.member_id = memberId

\* getOne: the first selected receipt joined with its payment request, or NoRow.
\* (The join with members adds name and account number, which are not modelled.)
ReceiptRow(rcps, reqs, n, memberId) ==
    LET S == {i \in 1..Len(rcps) : SelectsReceipt(rcps[i], n, memberId)}
    IN  IF S = {} THEN NoRow
        ELSE LET i == CHOOSE j \in S : \A k \in S : j <= k
             IN  [receipt_number |-> rcps[i].receipt_number,
                  member_id      |-> rcps[i].member_id,
                  amount         |-> rcps[i].amount,
                  payment_request_id |-> rcps[i].payment_request_id,
                  transaction_id |-> reqs[rcps[i].payment_request_id].transaction_id,
                  purpose        |-> reqs[rcps[i].payment_request_id].purpose]

\* The reply of the receipt route; ok is false when the query or the
\* JSON.parse of receipt_data throws.
ReceiptReply(rcps, reqs, n, memberId, ok) ==
    IF ~ok THEN Reply(500, "Failed to retrieve receipt", NoRow)
    ELSE IF ReceiptRow(rcps, reqs, n, memberId) = NoRow
         THEN Reply(404, "Receipt not found", NoRow)
         ELSE Reply(200, "", ReceiptRow(rcps, reqs, n, memberId))

GetReceipt(memberId, n, ok) ==
    /\ Statement(ok)
    /\ response' = [route |-> "receipt", caller |-> memberId, key |-> n,
                    reply |-> ReceiptReply(payment_receipts, upi_payment_requests,
                                           n, memberId, ok)]
    /\ UNCHANGED <<extVars, now, members, upi_payment_requests, transactions, payment_receipts,
                   member_requests, approval, calls, txn_log, commits>>

\* WHERE transaction_id = ? AND member_id = ?
SelectsStatusRow(row, tid, memberId) ==
    row.transaction_id = tid /\ row.member_id = memberId

\* getOne with the seven selected columns, or NoRow.
StatusRow(reqs, tid, memberId) ==
    LET S == {i \in 1..Len(reqs) : SelectsStatusRow(reqs[i], tid, memberId)}
    IN  IF S = {} THEN NoRow
        ELSE LET i == CHOOSE j \in S : \A k \in S : j <= k
             IN  [transaction_id    |-> reqs[i].transaction_id,
                  amount            |-> reqs[i].amount,
                  purpose           |-> reqs[i].purpose,
                  payment_status    |-> reqs[i].payment_status,
                  expires_at        |-> reqs[i].expires_at,
                  paid_at           |-> reqs[i].paid_at,
                  receipt_generated |-> reqs[i].receipt_generated]

StatusReply(reqs, tid, memberId, ok) ==
    IF ~ok THEN Reply(500, "Failed to check payment status", NoRow)
    ELSE IF StatusRow(reqs, tid, memberId) = NoRow
         THEN Reply(404, "Payment request not found", NoRow)
         ELSE Reply(200, "", StatusRow(reqs, tid, memberId))

\* A status read that also stores 'expired' on the rows it finds past expiry.
GetStatusMarksExpired(memberId, tid, ok) ==
    /\ Statement(ok)
    /\ response' = [route |-> "status", caller |-> memberId, key |-> tid,
                    reply |-> StatusReply(upi_payment_requests, tid, memberId, ok)]
    /\ upi_payment_requests' =
           [i \in 1..Len(upi_payment_requests) |->
               IF /\ SelectsStatusRow(upi_payment_requests[i], tid, memberId)
                  /\ upi_payment_requests[i].payment_status = "pending"
                  /\ Expired(now, upi_payment_requests[i])
               THEN [upi_payment_requests[i] EXCEPT !.payment_status = "expired"]
               ELSE upi_payment_requests[i]]
    /\ UNCHANGED <<extVars, now, members, transactions, payment_receipts,
                   member_requests, approval, calls, txn_log, commits>>

GetStatus(memberId, tid, ok) ==
    /\ Statement(ok)
    /\ response' = [route |-> "status", caller |-> memberId, key |-> tid,
                    reply |-> StatusReply(upi_payment_requests, tid, memberId, ok)]
    /\ UNCHANGED <<extVars, now, members, upi_payment_requests, transactions, payment_receipts,
                   member_requests, approval, calls, txn_log, commits>>

KnownReceiptNumbers == {payment_receipts[i].receipt_number : i \in 1..Len(payment_receipts)}
UnknownReceiptNumber == <<MaxTime + 1, 0>>

\* ------------------------- POST /member-requests/:requestId/approve, /reject
\* SELECT * FROM member_requests WHERE request_id = ? AND status = 'pending'
PendingMemberRequest(reqs, rid) == rid \in 1..Len(reqs) /\ reqs[rid].status = "pending"

\* INSERT INTO members (..., balance, status, created_at) VALUES (..., ?, 'active', NOW())
ApprovedMember(request) == NewMember(request.initial_deposit, "active")

\* INSERT INTO transactions (...) VALUES (?, 'deposit', ?, 'Initial deposit', ?, NOW())
InitialDepositRecord(id, request, t) ==
    [member_id |-> id,
     transaction_type |-> "deposit",
     amount |-> request.initial_deposit,
     description |-> "Initial deposit",
     balance_after |-> request.initial_deposit,
     created_at |-> t]

RemoveAt(seq, i) ==
    IF i \in 1..Len(seq) THEN SubSeq(seq, 1, i - 1) \o SubSeq(seq, i + 1, Len(seq)) ELSE seq

\* members.email and members.account_number are UNIQUE: a member row made from
\* request rid is stored (insertId is cleared when the row is rolled back).
MemberOfRequestStored(rid) ==
    \E j \in Approvals : approval[j].request_id = rid /\ approval[j].insertId # 0

ApproveStart(k, rid) ==
    /\ approval[k].pc = "idle"
    /\ \A j \in Approvals : j < k => approval[j].pc # "idle"
    /\ approval' = [approval EXCEPT ![k].pc = "select", ![k].kind = "approve",
                                    ![k].request_id = rid]
    /\ UNCHANGED <<extVars, response, now, members, upi_payment_requests, transactions, payment_receipts,
                   member_requests, calls, faults, txn_log, commits>>

\* getOne(pending request), 404 when absent; generateAccountNumber; START TRANSACTION.
ApproveSelect(k, ok) ==
    /\ approval[k].pc = "select"
    /\ approval[k].kind = "approve"
    /\ Statement(ok)
    /\ approval' =
         IF ~ok THEN [approval EXCEPT ![k].pc = "done", ![k].outcome = "error"]
         ELSE IF ~PendingMemberRequest(member_requests, approval[k].request_id)
              THEN [approval EXCEPT ![k].pc = "done", ![k].outcome = "not_found"]
              ELSE [approval EXCEPT ![k].pc = "member"]
    /\ UNCHANGED <<extVars, response, now, members, upi_payment_requests, transactions, payment_receipts,
                   member_requests, calls, txn_log, commits>>

\* catch: executeQuery('ROLLBACK') on whichever pool connection serves it.  It
\* undoes the route's inserts when that connection is the one that ran START
\* TRANSACTION and the inserts (undone), and nothing otherwise.
ApproveRollback(k, undone) ==
    /\ approval' = [approval EXCEPT ![k].pc = "done", ![k].outcome = "error",
                                    ![k].insertId = IF undone THEN 0 ELSE @,
                                    ![k].txn_index = IF undone THEN 0 ELSE @]
    /\ members' = IF undone THEN RemoveAt(members, approval[k].insertId) ELSE members
    /\ transactions' = IF undone THEN RemoveAt(transactions, approval[k].txn_index)
                       ELSE transactions
    /\ txn_log' = IF undone THEN RemoveAt(txn_log, approval[k].txn_index) ELSE txn_log

\* The INSERT INTO members; it throws like any statement, and on the UNIQUE
\* keys when a member made from the same request is stored.
ApproveMember(k, ok, undone) ==
    /\ approval[k].pc = "member"
    /\ Statement(ok)
    /\ IF ok /\ ~MemberOfRequestStored(approval[k].request_id)
       THEN /\ members' = Append(members,
                                 ApprovedMember(member_requests[approval[k].request_id]))
            /\ approval' = [approval EXCEPT ![k].pc = "deposit",
                                            ![k].insertId = Len(members) + 1]
            /\ UNCHANGED <<transactions, txn_log>>
       ELSE ApproveRollback(k, undone)
    /\ UNCHANGED <<extVars, response, now, upi_payment_requests, payment_receipts, member_requests, calls,
                   commits>>

\* The INSERT INTO transactions of the initial deposit.
ApproveDeposit(k, ok, undone) ==
    /\ approval[k].pc = "deposit"
    /\ Statement(ok)
    /\ IF ok
       THEN /\ transactions' =
                   Append(transactions,
                          InitialDepositRecord(approval[k].insertId,
                                               member_requests[approval[k].request_id], now))
            /\ txn_log' = Append(txn_log, [call |-> 0, request_id |-> 0, pre_balance |-> 0,
                                           own_balance |-> 0, commit_no |-> 0])
            /\ approval' = [approval EXCEPT ![k].pc = "request",
                                            ![k].txn_index = Len(transactions) + 1]
            /\ UNCHANGED members
       ELSE ApproveRollback(k, undone)
    /\ UNCHANGED <<extVars, response, now, upi_payment_requests, payment_receipts, member_requests, calls,
                   commits>>

\* UPDATE member_requests SET status = 'approved', ... WHERE request_id = ?; COMMIT.
ApproveRequest(k, ok, undone) ==
    /\ approval[k].pc = "request"
    /\ Statement(ok)
    /\ IF ok
       THEN /\ member_requests' =
                   [member_requests EXCEPT ![approval[k].request_id].status = "approved"]
            /\ approval' = [approval EXCEPT ![k].pc = "done", ![k].outcome = "approved"]
            /\ UNCHANGED <<members, transactions, txn_log>>
       ELSE /\ ApproveRollback(k, undone)
            /\ UNCHANGED member_requests
    /\ UNCHANGED <<extVars, response, now, upi_payment_requests, payment_receipts, calls, commits>>

ApproveStep(k, ok, undone) ==
    \/ ApproveMember(k, ok, undone)
    \/ ApproveDeposit(k, ok, undone)
    \/ ApproveRequest(k, ok, undone)

RejectStart(k, rid) ==
    /\ approval[k].pc = "idle"
    /\ \A j \in Approvals : j < k => approval[j].pc # "idle"
    /\ approval' = [approval EXCEPT ![k].pc = "select", ![k].kind = "reject",
                                    ![k].request_id = rid]
    /\ UNCHANGED <<extVars, response, now, members, upi_payment_requests, transactions, payment_receipts,
                   member_requests, calls, faults, txn_log, commits>>

\* getOne(pending request), 404 when absent.
RejectSelect(k, ok) ==
    /\ approval[k].pc = "select"
    /\ approval[k].kind = "reject"
    /\ Statement(ok)
    /\ approval' =
         IF ~ok THEN [approval EXCEPT ![k].pc = "done", ![k].outcome = "error"]
         ELSE IF ~PendingMemberRequest(member_requests, approval[k].request_id)
              THEN [approval EXCEPT ![k].pc = "done", ![k].outcome = "not_found"]
              ELSE [approval EXCEPT ![k].pc = "reject"]
    /\ UNCHANGED <<extVars, response, now, members, upi_payment_requests, transactions, payment_receipts,
                   member_requests, calls, txn_log, commits>>

\* UPDATE member_requests SET status = 'rejected', ... WHERE request_id = ?
RejectRequest(k, ok) ==
    /\ approval[k].pc = "reject"
    /\ Statement(ok)
    /\ member_requests' =
           IF ok THEN [member_requests EXCEPT ![approval[k].request_id].status = "rejected"]
           ELSE member_requests
    /\ approval' = [approval EXCEPT ![k].pc = "done",
                                    ![k].outcome = IF ok THEN "rejected" ELSE "error"]
    /\ UNCHANGED <<extVars, response, now, members, upi_payment_requests, transactions, payment_receipts,
                   calls, txn_log, commits>>

\* ---------------------------------------------------------------------------
\* POST /admin/login
\* ---------------------------------------------------------------------------

SetLogin(l, rec) == [logins EXCEPT ![l] = rec]
FinishLogin(l, outcome) ==
    [logins EXCEPT ![l] = [@ EXCEPT !.pc = "done", !.outcome = outcome]]

\* admin.account_locked_until && new Date() < admin.account_locked_until
AccountLocked(admin, t) ==
    admin.account_locked_until # NoLock /\ t < admin.account_locked_until

\* A lockout that begins one failure late.
LockoutTimeAfterLimit(failedAttempts, t) ==
    IF failedAttempts > MaxFailedAttempts THEN t + LockoutMinutes ELSE NoLock

\* failedAttempts >= 5 ? new Date(Date.now() + 15 * 60 * 1000) : null
LockoutTime(failedAttempts, t) ==
    IF failedAttempts >= MaxFailedAttempts THEN t + LockoutMinutes ELSE NoLock

\* The handler is entered with a body that passed validation; found says
\* whether the username names the admin, password_ok what bcrypt.compare will
\* answer.
LoginStart(l, found, password_ok) ==
    /\ logins[l].pc \in {"idle", "done"}
    /\ \A g \in Logins : g < l => logins[g].pc \notin {"idle", "done"}
    /\ logins' = SetLogin(l, [IdleLogin EXCEPT !.pc = "select", !.found = found,
                                              !.password_ok = password_ok])
    /\ UNCHANGED <<now, faults, nonAdminVars, admins>>

\* getOne(SELECT ... FROM admins WHERE username = ?), then the checks up to
\* bcrypt.compare.
LoginSelect(l, ok) ==
    /\ logins[l].pc = "select"
    /\ Statement(ok)
    /\ logins' =
           IF ~ok THEN FinishLogin(l, "error")
           ELSE IF ~logins[l].found THEN FinishLogin(l, "invalid")
           ELSE IF AccountLocked(admins, now) THEN FinishLogin(l, "locked")
           ELSE IF admins.status # "Active" THEN FinishLogin(l, "inactive")
           ELSE SetLogin(l, [logins[l] EXCEPT
                                !.admin = admins,
                                !.pc = IF logins[l].password_ok THEN "reset" ELSE "fail"])
    /\ UNCHANGED <<now, nonAdminVars, admins>>

\* UPDATE admins SET failed_login_attempts = ?, account_locked_until = ?
LoginFail(l, ok) ==
    /\ logins[l].pc = "fail"
    /\ Statement(ok)
    /\ admins' =
           IF ok
           THEN [admins EXCEPT
                    !.failed_login_attempts = logins[l].admin.failed_login_attempts + 1,
                    !.account_locked_until =
                        LockoutTime(logins[l].admin.failed_login_attempts + 1, now)]
           ELSE admins
    /\ logins' = FinishLogin(l, IF ok THEN "invalid" ELSE "error")
    /\ UNCHANGED <<now, nonAdminVars>>

\* UPDATE admins SET failed_login_attempts = 0, account_locked_until = NULL,
\*     last_login = NOW()
LoginReset(l, ok) ==
    /\ logins[l].pc = "reset"
    /\ Statement(ok)
    /\ admins' =
           IF ok THEN [admins EXCEPT !.failed_login_attempts = 0,
                                     !.account_locked_until = NoLock]
           ELSE admins
    /\ logins' = IF ok THEN SetLogin(l, [logins[l] EXCEPT !.pc = "session"])
                 ELSE FinishLogin(l, "error")
    /\ UNCHANGED <<now, nonAdminVars>>

\* INSERT INTO admin_sessions, then the 200 with the tokens.
LoginSession(l, ok) ==
    /\ logins[l].pc = "session"
    /\ Statement(ok)
    /\ logins' = FinishLogin(l, IF ok THEN "success" ELSE "error")
    /\ UNCHANGED <<now, nonAdminVars, admins>>

LoginStep(l, ok) ==
    \/ LoginSelect(l, ok)
    \/ LoginFail(l, ok)
    \/ LoginReset(l, ok)
    \/ LoginSession(l, ok)

\* ---------------------------------------------------------------------------
\* server.js: testConnection().then(...).catch(...)
\* ---------------------------------------------------------------------------

\* A start-up that listens whatever the test answered.
ServerStartRegardless(listens) ==
    /\ server.pc = "tested"
    /\ server' = [server EXCEPT !.pc = "listening"]
    /\ UNCHANGED <<now, faults, nonServerVars>>

\* testConnection: pool.getConnection() resolves (true) or rejects, which the
\* catch block turns into false.
ServerTest(connected) ==
    /\ server.pc = "testing"
    /\ server' = [server EXCEPT !.pc = "tested", !.connected = connected]
    /\ UNCHANGED <<now, faults, nonServerVars>>

\* The then-callback: server.listen(PORT) when connected, else process.exit(1);
\* a listen that throws is caught by the catch of the chain, process.exit(1).
ServerStart(listens) ==
    /\ server.pc = "tested"
    /\ server' = IF server.connected /\ listens
                 THEN [server EXCEPT !.pc = "listening"]
                 ELSE [server EXCEPT !.pc = "exited", !.exit_code = 1]
    /\ UNCHANGED <<now, faults, nonServerVars>>

\* ---------------------------------------------------------------------------
\* routes/loans.js: POST /apply, PUT /:id/approve, /:id/reject, /:id/disburse
\* ---------------------------------------------------------------------------
\* approve and reject run getOne and executeQuery on the pool, each statement
\* autocommitted.  disburse runs inside transaction(): its statements share one
\* connection, its UPDATE locks the row until COMMIT or ROLLBACK and its writes
\* become visible to the other calls at COMMIT.  A SELECT takes no lock.
SetLoanCall(c, rec) == loan_calls' = [loan_calls EXCEPT ![c] = rec]

FinishLoanCall(c, outcome) ==
    SetLoanCall(c, [loan_calls[c] EXCEPT !.pc = "done", !.outcome = outcome])

\* lastNumber + 1 of the loan with the greatest loan_id, 'LN001' for the first.
NextLoanNumber ==
    IF Len(loans) = 0 THEN 1 ELSE loans[Len(loans)].loan_number + 1

\* POST /apply: the loan is inserted with status 'Applied'.
ApplyLoan(ok) ==
    /\ Len(loans) < MaxLoans
    /\ Statement(ok)
    /\ loans' = IF ok
                THEN Append(loans, [loan_number |-> NextLoanNumber,
                                    status |-> "Applied", locked_by |-> 0])
                ELSE loans
    /\ UNCHANGED <<now, nonLoanVars, loan_calls, loan_transactions>>

\* A review or disburse call arrives; disburse takes a connection and begins
\* its transaction.
LoanStart(c, kind, id) ==
    /\ loan_calls[c].pc \in {"idle", "done"}
    /\ \A j \in LoanCalls : j < c => loan_calls[j].pc # "idle"
    /\ SetLoanCall(c, [IdleLoanCall EXCEPT !.pc = "select", !.kind = kind,
                                           !.loan_id = id])
    /\ UNCHANGED <<now, faults, nonLoanVars, loans, loan_transactions>>

\* The status a call may act on: approve and reject check it in JavaScript,
\* disburse in the WHERE clause of its SELECT.
LoanStatusAllows(kind, status) ==
    IF kind = "disburse"
    THEN status = "Approved"
    ELSE status \in {"Applied", "Under Review"}

\* SELECT ... FROM loans WHERE loan_id = ?, then the status check.
LoanSelect(c, ok) ==
    LET call == loan_calls[c] IN
    /\ call.pc = "select"
    /\ Statement(ok)
    /\ IF ~ok
       THEN FinishLoanCall(c, "error")
       ELSE IF call.loan_id > Len(loans)
       THEN FinishLoanCall(c, IF call.kind = "disburse" THEN "error" ELSE "not_found")
       ELSE IF ~LoanStatusAllows(call.kind, loans[call.loan_id].status)
       THEN FinishLoanCall(c, IF call.kind = "disburse" THEN "error" ELSE "bad_status")
       ELSE SetLoanCall(c, [call EXCEPT !.pc = "update",
                                        !.row_status = loans[call.loan_id].status])
    /\ UNCHANGED <<now, nonLoanVars, loans, loan_transactions>>

\* The status each route writes.
LoanStatusWritten(kind) ==
    CASE kind = "approve" -> "Approved"
      [] kind = "reject" -> "Rejected"
      [] kind = "disburse" -> "Disbursed"

\* UPDATE loans SET status = ... WHERE loan_id = ?.  The statement waits while
\* another transaction holds the row.  approve and reject commit at once;
\* disburse keeps the row locked and its write pending.
LoanUpdate(c, ok) ==
    LET call == loan_calls[c]
        id == call.loan_id IN
    /\ call.pc = "update"
    /\ loans[id].locked_by = 0
    /\ Statement(ok)
    /\ IF ~ok
       THEN FinishLoanCall(c, "error") /\ UNCHANGED loans
       ELSE IF call.kind = "disburse"
       THEN /\ loans' = [loans EXCEPT ![id].locked_by = c]
            /\ SetLoanCall(c, [call EXCEPT !.pc = "insert"])
       ELSE /\ loans' = [loans EXCEPT ![id].status = LoanStatusWritten(call.kind)]
            /\ SetLoanCall(c, [call EXCEPT !.pc = "audit"])
    /\ UNCHANGED <<now, nonLoanVars, loan_transactions>>

\* disburse: INSERT INTO transactions (..., 'Deposit', ..., 'Loan', loanId, ...);
\* a failure rolls the transaction back and releases the row.
LoanInsert(c, ok) ==
    LET call == loan_calls[c]
        id == call.loan_id IN
    /\ call.pc = "insert"
    /\ Statement(ok)
    /\ IF ok
       THEN SetLoanCall(c, [call EXCEPT !.pc = "commit"]) /\ UNCHANGED loans
       ELSE /\ loans' = [loans EXCEPT ![id].locked_by = 0]
            /\ FinishLoanCall(c, "error")
    /\ UNCHANGED <<now, nonLoanVars, loan_transactions>>

\* The row disburse inserts.
LoanTransaction(c, id) ==
    [transaction_type |-> "Deposit", reference_type |-> "Loan",
     reference_id |-> id, call |-> c]

\* disburse: connection.commit() makes the status and the record visible.
LoanCommit(c, ok) ==
    LET call == loan_calls[c]
        id == call.loan_id IN
    /\ call.pc = "commit"
    /\ Statement(ok)
    /\ IF ok
       THEN /\ loans' = [loans EXCEPT ![id].status = LoanStatusWritten(call.kind),
                                      ![id].locked_by = 0]
            /\ loan_transactions' = Append(loan_transactions, LoanTransaction(c, id))
            /\ SetLoanCall(c, [call EXCEPT !.pc = "audit"])
       ELSE /\ loans' = [loans EXCEPT ![id].locked_by = 0]
            /\ FinishLoanCall(c, "error")
            /\ UNCHANGED loan_transactions
    /\ UNCHANGED <<now, nonLoanVars>>

\* INSERT INTO audit_logs, then the 200 response.
LoanAudit(c, ok) ==
    /\ loan_calls[c].pc = "audit"
    /\ Statement(ok)
    /\ FinishLoanCall(c, IF ok THEN "ok" ELSE "error")
    /\ UNCHANGED <<now, nonLoanVars, loans, loan_transactions>>

LoanKinds == {"approve", "reject", "disburse"}

NextLoans ==
    \/ \E ok \in BOOLEAN : ApplyLoan(ok)
    \/ \E c \in LoanCalls, kind \in LoanKinds, id \in 1..Len(loans) : LoanStart(c, kind, id)
    \/ \E c \in LoanCalls, ok \in BOOLEAN : LoanSelect(c, ok)
    \/ \E c \in LoanCalls, ok \in BOOLEAN : LoanUpdate(c, ok)
    \/ \E c \in LoanCalls, ok \in BOOLEAN : LoanInsert(c, ok)
    \/ \E c \in LoanCalls, ok \in BOOLEAN : LoanCommit(c, ok)
    \/ \E c \in LoanCalls, ok \in BOOLEAN : LoanAudit(c, ok)

SpecLoans == Init /\ [][NextLoans]_vars

\* ---------------------------------------------------------------------------
\* deposits router (unnamed/part_005): POST /create, POST /:id/credit-interest,
\* PUT /:id/close
\* ---------------------------------------------------------------------------
\* Both admin routes run inside transaction(): the SELECT takes no lock, the
\* UPDATE locks the row until COMMIT or ROLLBACK, and the writes become visible
\* to the other calls at COMMIT.  Amounts are whole rupees; the principal is
\* chosen so that every interest amount the bounds allow is a whole number.
\* Fixed and Recurring deposits (fractional rates, tenure) are left out.
DepositTypes == {"Savings", "Current"}

\* interestRates[deposit_type], in percent per year.
InterestRate(deposit_type) == IF deposit_type = "Savings" THEN SavingsRate ELSE CurrentRate

SetDepositCall(c, rec) == deposit_calls' = [deposit_calls EXCEPT ![c] = rec]

FinishDepositCall(c, outcome) ==
    SetDepositCall(c, [deposit_calls[c] EXCEPT !.pc = "done", !.outcome = outcome])

\* POST /create: the deposit is inserted 'Active' with current_balance equal to
\* the principal, then the record of the initial deposit.
CreateDeposit(deposit_type, principal, ok) ==
    /\ Len(deposits) < MaxDeposits
    /\ Statement(ok)
    /\ IF ok
       THEN /\ deposits' = Append(deposits,
                               [deposit_type |-> deposit_type,
                                principal_amount |-> principal,
                                interest_rate |-> InterestRate(deposit_type),
                                status |-> "Active",
                                current_balance |-> principal,
                                locked_by |-> 0])
            /\ deposit_transactions' =
                   Append(deposit_transactions,
                          [transaction_type |-> "Deposit", amount |-> principal,
                           balance_after |-> principal,
                           reference_id |-> Len(deposits) + 1, call |-> 0])
       ELSE UNCHANGED <<deposits, deposit_transactions>>
    /\ UNCHANGED <<now, nonDepositVars, deposit_calls>>

\* A credit-interest or close call arrives, takes a connection and begins its
\* transaction.
DepositStart(c, kind, id) ==
    /\ deposit_calls[c].pc = "idle"
    /\ \A j \in DepositCalls : j < c => deposit_calls[j].pc # "idle"
    /\ SetDepositCall(c, [IdleDepositCall EXCEPT !.pc = "select", !.kind = kind,
                                                 !.deposit_id = id])
    /\ UNCHANGED <<now, faults, nonDepositVars, deposits, deposit_transactions>>

\* credit-interest: a quarter of the yearly rate on the balance that was read
\* (Savings and Current).
InterestAmount(deposit, balance) ==
    (balance * deposit.interest_rate) \div (100 * QuartersPerYear)

\* SELECT * FROM deposits WHERE deposit_id = ? AND status = "Active"; no row
\* throws.  credit-interest with no interest to credit writes nothing.
DepositSelect(c, ok) ==
    LET call == deposit_calls[c]
        id == call.deposit_id IN
    /\ call.pc = "select"
    /\ Statement(ok)
    /\ IF ~ok \/ id > Len(deposits)
       THEN FinishDepositCall(c, "error")
       ELSE IF deposits[id].status # "Active"
       THEN FinishDepositCall(c, "error")
       ELSE IF call.kind = "credit"
               /\ InterestAmount(deposits[id], deposits[id].current_balance) <= 0
       THEN SetDepositCall(c, [call EXCEPT !.pc = "commit",
                                           !.row_balance = deposits[id].current_balance])
       ELSE SetDepositCall(c, [call EXCEPT !.pc = "update",
                                           !.row_balance = deposits[id].current_balance])
    /\ UNCHANGED <<now, nonDepositVars, deposits, deposit_transactions>>

\* UPDATE deposits SET ... WHERE deposit_id = ?: waits for the row, then holds
\* it; a failure rolls back.
DepositUpdate(c, ok) ==
    LET call == deposit_calls[c]
        id == call.deposit_id IN
    /\ call.pc = "update"
    /\ deposits[id].locked_by = 0
    /\ Statement(ok)
    /\ IF ok
       THEN /\ deposits' = [deposits EXCEPT ![id].locked_by = c]
            /\ SetDepositCall(c, [call EXCEPT !.pc = "insert"])
       ELSE FinishDepositCall(c, "error") /\ UNCHANGED deposits
    /\ UNCHANGED <<now, nonDepositVars, deposit_transactions>>

\* INSERT INTO transactions (...); a failure rolls back and releases the row.
DepositInsert(c, ok) ==
    LET call == deposit_calls[c]
        id == call.deposit_id IN
    /\ call.pc = "insert"
    /\ Statement(ok)
    /\ IF ok
       THEN SetDepositCall(c, [call EXCEPT !.pc = "commit"]) /\ UNCHANGED deposits
       ELSE /\ deposits' = [deposits EXCEPT ![id].locked_by = 0]
            /\ FinishDepositCall(c, "error")
    /\ UNCHANGED <<now, nonDepositVars, deposit_transactions>>

\* The row of deposits after the call's UPDATE.
DepositWritten(call, deposit) ==
    IF call.kind = "credit"
    THEN [deposit EXCEPT
             !.current_balance = call.row_balance + InterestAmount(deposit, call.row_balance),
             !.locked_by = 0]
    ELSE [deposit EXCEPT !.status = "Premature Closure", !.locked_by = 0]

\* The row of transactions the call inserts.
DepositTransaction(c, call, deposit) ==
    IF call.kind = "credit"
    THEN [transaction_type |-> "Interest Credit",
          amount |-> InterestAmount(deposit, call.row_balance),
          balance_after |-> call.row_balance + InterestAmount(deposit, call.row_balance),
          reference_id |-> call.deposit_id, call |-> c]
    ELSE [transaction_type |-> "Withdrawal", amount |-> call.row_balance,
          balance_after |-> 0, reference_id |-> call.deposit_id, call |-> c]

\* connection.commit() makes the UPDATE and the record visible; a call that
\* wrote nothing commits an empty transaction.
DepositCommit(c, ok) ==
    LET call == deposit_calls[c]
        id == call.deposit_id
        wrote == deposits[id].locked_by = c IN
    /\ call.pc = "commit"
    /\ Statement(ok)
    /\ IF ok
       THEN /\ deposits' = IF wrote
                           THEN [deposits EXCEPT ![id] = DepositWritten(call, deposits[id])]
                           ELSE deposits
            /\ deposit_transactions' =
                   IF wrote
                   THEN Append(deposit_transactions,
                               DepositTransaction(c, call, deposits[id]))
                   ELSE deposit_transactions
            /\ SetDepositCall(c, [call EXCEPT !.pc = "audit"])
       ELSE /\ deposits' = IF wrote
                           THEN [deposits EXCEPT ![id].locked_by = 0]
                           ELSE deposits
            /\ FinishDepositCall(c, "error")
            /\ UNCHANGED deposit_transactions
    /\ UNCHANGED <<now, nonDepositVars>>

\* INSERT INTO audit_logs, then the 200 response.
DepositAudit(c, ok) ==
    /\ deposit_calls[c].pc = "audit"
    /\ Statement(ok)
    /\ FinishDepositCall(c, IF ok THEN "ok" ELSE "error")
    /\ UNCHANGED <<now, nonDepositVars, deposits, deposit_transactions>>

DepositKinds == {"credit", "close"}

NextDeposits ==
    \/ \E deposit_type \in DepositTypes, principal \in Principals, ok \in BOOLEAN :
           CreateDeposit(deposit_type, principal, ok)
    \/ \E c \in DepositCalls, kind \in DepositKinds, id \in 1..Len(deposits) :
           DepositStart(c, kind, id)
    \/ \E c \in DepositCalls, ok \in BOOLEAN : DepositSelect(c, ok)
    \/ \E c \in DepositCalls, ok \in BOOLEAN : DepositUpdate(c, ok)
    \/ \E c \in DepositCalls, ok \in BOOLEAN : DepositInsert(c, ok)
    \/ \E c \in DepositCalls, ok \in BOOLEAN : DepositCommit(c, ok)
    \/ \E c \in DepositCalls, ok \in BOOLEAN : DepositAudit(c, ok)

SpecDeposits == Init /\ [][NextDeposits]_vars

\* ---------------------------------------------------------------------------
\* KafalAPI (unnamed/part_002): setToken, clearTokens, request, refreshAuthToken
\* ---------------------------------------------------------------------------
\* What a fetch of the page can bring: a 2xx response, a 401, another failure
\* status, or a rejected promise (network error, body that is not JSON).
FetchResults == {"ok", "unauthorized", "failed", "throws"}

\* clearTokens()
ClearTokens(a) == [a EXCEPT !.token = "none", !.refreshToken = "none"]

\* setToken(token, refreshToken = null): the refresh token is replaced only
\* when one is given.
SetToken(a, token, withRefresh) ==
    [a EXCEPT !.token = token,
              !.refreshToken = IF withRefresh THEN "refresh" ELSE @]

\* The methods of the object that call request.
ApiMethods == {"adminLogin", "memberLogin", "logout", "getDashboardStats"}

\* A method calls request(endpoint, options): a new call; the history counters
\* restart.
ApiRequest(method) ==
    /\ api.pc = "idle"
    /\ api' = [api EXCEPT !.pc = "fetch", !.method = method, !.fetches = 0,
                          !.refreshes = 0, !.outcome = "none"]
    /\ UNCHANGED <<now, faults, nonClientVars, realtime>>

\* The method continues after request: the logins store the tokens of a
\* response with success, logout clears the tokens of any response; an
\* exception of request ends the method.
ApiReturn(withRefresh) ==
    /\ api.pc = "done"
    /\ api' = [(IF api.outcome = "error"
                THEN api
                ELSE IF api.method \in {"adminLogin", "memberLogin"} /\ api.outcome = "data"
                THEN SetToken(api, "login", withRefresh)
                ELSE IF api.method = "logout"
                THEN ClearTokens(api)
                ELSE api) EXCEPT !.pc = "idle"]
    /\ UNCHANGED <<now, faults, nonClientVars, realtime>>

\* const response = await fetch(url, config); const data = await response.json()
ApiFetch(result) ==
    /\ api.pc = "fetch"
    /\ api' = IF result = "ok"
              THEN [api EXCEPT !.pc = "done", !.fetches = @ + 1, !.outcome = "data"]
              ELSE IF result = "unauthorized" /\ api.refreshToken # "none"
              THEN [api EXCEPT !.pc = "refresh", !.fetches = @ + 1]
              ELSE [api EXCEPT !.pc = "done", !.fetches = @ + 1, !.outcome = "error"]
    /\ UNCHANGED <<now, faults, nonClientVars, realtime>>

\* refreshAuthToken(): a 2xx response with a token stores it and returns true;
\* any other response, and any exception, clears both tokens and returns false,
\* and request throws.
ApiRefresh(result) ==
    /\ api.pc = "refresh"
    /\ api' = IF result = "ok"
              THEN [SetToken(api, "refreshed", FALSE) EXCEPT !.pc = "retry",
                                                             !.refreshes = @ + 1]
              ELSE [ClearTokens(api) EXCEPT !.pc = "done", !.refreshes = @ + 1,
                                            !.outcome = "error"]
    /\ UNCHANGED <<now, faults, nonClientVars, realtime>>

\* Mutant of ApiRetry: a retry that is again unauthorized refreshes again.
ApiRetryAgain(result) ==
    /\ api.pc = "retry"
    /\ api' = IF result = "throws"
              THEN [api EXCEPT !.pc = "done", !.fetches = @ + 1, !.outcome = "error"]
              ELSE IF result = "unauthorized"
              THEN [api EXCEPT !.pc = "refresh", !.fetches = @ + 1]
              ELSE [api EXCEPT !.pc = "done", !.fetches = @ + 1,
                               !.outcome = IF result = "ok" THEN "data" ELSE "error_body"]
    /\ UNCHANGED <<now, faults, nonClientVars, realtime>>

\* const retryResponse = await fetch(url, config); return await
\* retryResponse.json(): the body is returned whatever the status.
ApiRetry(result) ==
    /\ api.pc = "retry"
    /\ api' = IF result = "throws"
              THEN [api EXCEPT !.pc = "done", !.fetches = @ + 1, !.outcome = "error"]
              ELSE [api EXCEPT !.pc = "done", !.fetches = @ + 1,
                               !.outcome = IF result = "ok" THEN "data" ELSE "error_body"]
    /\ UNCHANGED <<now, faults, nonClientVars, realtime>>

\* ---------------------------------------------------------------------------
\* RealtimeClient (assets/js/realtime.js): connect, the 'connect' and
\* 'disconnect' listeners, attemptReconnect
\* ---------------------------------------------------------------------------
\* Mutant of AttemptReconnect: every reconnect waits reconnectDelay.
AttemptReconnectFixedDelay(rt) ==
    IF rt.reconnectAttempts < MaxReconnectAttempts
    THEN [rt EXCEPT !.reconnectAttempts = @ + 1,
                    !.timers[ReconnectDelay] = @ + 1,
                    !.scheduled = @ + 1]
    ELSE rt

\* attemptReconnect(): below the limit the counter is incremented and
\* connect() is scheduled after reconnectDelay * reconnectAttempts.
AttemptReconnect(rt) ==
    IF rt.reconnectAttempts < MaxReconnectAttempts
    THEN [rt EXCEPT !.reconnectAttempts = @ + 1,
                    !.timers[ReconnectDelay * (rt.reconnectAttempts + 1)] = @ + 1,
                    !.scheduled = @ + 1]
    ELSE rt

\* connect(): io(socketURL) creates a socket and the listeners are attached.
CreateSocket(rt) == [rt EXCEPT !.sockets = @ + 1, !.connecting = @ + 1]

\* The page calls connect() once when it loads.
RtConnect ==
    /\ realtime.sockets = 0
    /\ realtime' = CreateSocket(realtime)
    /\ UNCHANGED <<now, faults, nonClientVars, api>>

\* socket.on('connect'): a socket of the client is connected.
RtOnConnect ==
    /\ realtime.connecting > 0
    /\ realtime' = [realtime EXCEPT !.connecting = @ - 1, !.connected = @ + 1,
                                    !.isConnected = TRUE,
                                    !.reconnectAttempts = 0,
                                    !.scheduled = 0, !.disconnects = 0]
    /\ UNCHANGED <<now, faults, nonClientVars, api>>

\* socket.on('disconnect'): a connected socket is disconnected; socket.io
\* reconnects it by itself (again) or not, by the reason of the disconnect.
\* The setTimeout callbacks that have not run yet.
PendingTimers == {<<d, n>> \in Delays \X (1..MaxTimers) : n <= realtime.timers[d]}

RtOnDisconnect(again) ==
    /\ realtime.connected > 0
    /\ realtime.reconnectAttempts < MaxReconnectAttempts
       => Cardinality(PendingTimers) < MaxTimers
    /\ realtime' = AttemptReconnect(
                       [realtime EXCEPT !.connected = @ - 1,
                                        !.connecting = IF again THEN @ + 1 ELSE @,
                                        !.isConnected = FALSE,
                                        !.disconnects = @ + 1])
    /\ UNCHANGED <<now, faults, nonClientVars, api>>

\* A setTimeout callback of attemptReconnect runs connect().
RtTimer(d) ==
    /\ realtime.timers[d] > 0
    /\ realtime.sockets < MaxSockets
    /\ realtime' = CreateSocket([realtime EXCEPT !.timers[d] = @ - 1])
    /\ UNCHANGED <<now, faults, nonClientVars, api>>

\* SpecApi: the KafalAPI object of a page, one method call at a time.
NextApi ==
    \/ \E method \in ApiMethods : ApiRequest(method)
    \/ \E result \in FetchResults : ApiFetch(result)
    \/ \E result \in {"ok", "failed", "throws"} : ApiRefresh(result)
    \/ \E result \in FetchResults : ApiRetry(result)
    \/ \E withRefresh \in BOOLEAN : ApiReturn(withRefresh)

SpecApi == Init /\ [][NextApi]_vars

\* SpecRealtime: the RealtimeClient object of a page and its sockets.
NextRealtime ==
    \/ RtConnect
    \/ RtOnConnect
    \/ \E again \in BOOLEAN : RtOnDisconnect(again)
    \/ \E d \in Delays : RtTimer(d)

SpecRealtime == Init /\ [][NextRealtime]_vars

\* ------------------------------------------------------- specifications
\* Spec: confirm calls overlap at every await and their statements may fail.
ConcAmounts == {200}
ConcPurposes == {"membership_fee", "deposit"}

Next ==
    \/ Tick
    \/ \E a \in ConcAmounts, p \in ConcPurposes, r \in TidSuffixes :
           Generate(1, a, p, r, TRUE)
    \/ \E h \in Calls, tid \in KnownIds \cup {UnknownId} : ConfirmStart(h, tid, 1)
    \/ \E h \in Calls, ok \in BOOLEAN : ConfirmStep(h, ok)

Spec == Init /\ [][Next]_vars

\* SpecSeq: one confirm call at a time, every purpose, no failing statement.
NoCallInFlight ==
    /\ \A g \in Calls : calls[g].pc \in {"idle", "done"}
    /\ \A k \in Approvals : approval[k].pc \in {"idle", "done"}

SeqAmounts == {200, 250, 2400}

NextSeq ==
    \/ Tick
    \/ \E a \in SeqAmounts, p \in Purposes, r \in TidSuffixes : Generate(1, a, p, r, TRUE)
    \/ \E h \in Calls, tid \in KnownIds \cup {UnknownId} :
           NoCallInFlight /\ ConfirmStart(h, tid, 1)
    \/ \E h \in Calls : ConfirmStep(h, TRUE)

SpecSeq == Init /\ [][NextSeq]_vars

\* SpecMembers: approvals and membership-fee payments, one call at a time,
\* statements may fail.
MemberAmounts == {200, 2400}

NextMembers ==
    \/ Tick
    \/ \E a \in MemberAmounts, r \in TidSuffixes, ok \in BOOLEAN :
           Generate(1, a, "membership_fee", r, ok)
    \/ \E h \in Calls, tid \in KnownIds : NoCallInFlight /\ ConfirmStart(h, tid, 1)
    \/ \E h \in Calls, ok \in BOOLEAN : ConfirmStep(h, ok)
    \/ \E rid \in 1..Len(member_requests) : NoCallInFlight /\ ApproveStart(1, rid)
    \/ \E ok \in BOOLEAN : ApproveSelect(1, ok)
    \/ \E ok \in BOOLEAN, undone \in BOOLEAN : ApproveStep(1, ok, undone)

SpecMembers == Init /\ [][NextMembers]_vars

\* Two members, each generating requests; confirms (one at a time) and the two
\* read routes (whose query may fail) are called by either member.
OwnerMembers == {1, 2}
OwnerAmounts == {200}
NextOwner ==
    \/ Tick
    \/ \E m \in OwnerMembers, a \in OwnerAmounts, r \in TidSuffixes :
           Generate(m, a, "deposit", r, TRUE)
    \/ \E h \in Calls, tid \in KnownIds, caller \in OwnerMembers :
           NoCallInFlight /\ ConfirmStart(h, tid, caller)
    \/ \E h \in Calls : ConfirmStep(h, TRUE)
    \/ \E caller \in OwnerMembers, n \in KnownReceiptNumbers \cup {UnknownReceiptNumber},
          ok \in BOOLEAN : GetReceipt(caller, n, ok)
    \/ \E caller \in OwnerMembers, tid \in KnownIds \cup {UnknownId}, ok \in BOOLEAN :
           GetStatus(caller, tid, ok)
SpecOwner == Init /\ [][NextOwner]_vars

\* The generate route alone, called with valid and invalid bodies; two random
\* suffixes, so that two requests of one clock value either collide or differ.
GenSuffixes == {0, 1}
BodyAmounts ==
    {[numeric |-> TRUE, paise |-> p] : p \in {-100, 0, 50, 100, 20000}}
        \cup {[numeric |-> FALSE, paise |-> 0]}
BodyPurposes == {"deposit", "share_purchase", "gift"}
NextGenerate ==
    \/ Tick
    \/ \E a \in BodyAmounts, p \in BodyPurposes, r \in GenSuffixes, ok \in BOOLEAN :
           PostGenerate(1, a, p, r, ok)
SpecGenerate == Init /\ [][NextGenerate]_vars


\* The admin login route: logins overlap at every await, their statements may
\* fail, and the clock runs past the lockout.
NextLogin ==
    \/ Tick
    \/ \E l \in Logins, found \in BOOLEAN, password_ok \in BOOLEAN :
           LoginStart(l, found, password_ok)
    \/ \E l \in Logins, ok \in BOOLEAN : LoginStep(l, ok)
SpecLogin == Init /\ [][NextLogin]_vars


\* The server process from start-up on; the generate route is served once the
\* server listens.
NextServer ==
    \/ \E connected \in BOOLEAN : ServerTest(connected)
    \/ \E listens \in BOOLEAN : ServerStart(listens)
    \/ server.pc = "listening" /\ Tick
    \/ \E a \in BodyAmounts, p \in BodyPurposes, r \in GenSuffixes, ok \in BOOLEAN :
           server.pc = "listening" /\ PostGenerate(1, a, p, r, ok)
SpecServer == Init /\ [][NextServer]_vars


\* The approve and reject routes on the member requests: calls overlap at every
\* await and their statements may fail.
NextReview ==
    \/ Tick
    \/ \E k \in Approvals, rid \in 1..Len(member_requests) : ApproveStart(k, rid)
    \/ \E k \in Approvals, rid \in 1..Len(member_requests) : RejectStart(k, rid)
    \/ \E k \in Approvals, ok \in BOOLEAN : ApproveSelect(k, ok)
    \/ \E k \in Approvals, ok \in BOOLEAN : RejectSelect(k, ok)
    \/ \E k \in Approvals, ok \in BOOLEAN, undone \in BOOLEAN : ApproveStep(k, ok, undone)
    \/ \E k \in Approvals, ok \in BOOLEAN : RejectRequest(k, ok)
SpecReview == Init /\ [][NextReview]_vars

\* ================================================================ claims
RequestIds == 1..Len(upi_payment_requests)

RecordsOf(rid) == {i \in 1..Len(txn_log) : txn_log[i].request_id = rid}
ReceiptsOf(rid) ==
    {i \in 1..Len(payment_receipts) : payment_receipts[i].payment_request_id = rid}
\* The calls whose UPDATE members for request rid has been committed.
MutationsOf(rid) ==
    {h \in Calls : calls[h].paymentRequest.request_id = rid /\ calls[h].commit_no > 0}
SuccessesOf(rid) ==
    {h \in Calls : calls[h].paymentRequest.request_id = rid /\ calls[h].outcome = "completed"}

Quiescent == \A h \in Calls : calls[h].pc \in {"idle", "done"}

\* C1: of the confirm calls on one transaction_id at most one succeeds, and the
\* request gets at most one credit record, one receipt and one account mutation.
C1_NoDoubleCredit ==
    \A rid \in RequestIds :
        /\ Cardinality(SuccessesOf(rid)) <= 1
        /\ Cardinality(RecordsOf(rid)) <= 1
        /\ Cardinality(ReceiptsOf(rid)) <= 1
        /\ Cardinality(MutationsOf(rid)) <= 1

\* C2: once no confirm is in flight, a request that a failed confirm had selected
\* is not left 'completed', and every 'completed' request has its transaction
\* record and its receipt.
C2_FailedConfirmUndone ==
    Quiescent =>
        /\ \A h \in Calls :
               (calls[h].outcome = "error" /\ calls[h].paymentRequest # NoRow
                /\ SuccessesOf(calls[h].paymentRequest.request_id) = {})
               => upi_payment_requests[calls[h].paymentRequest.request_id].payment_status
                      # "completed"
        /\ \A rid \in RequestIds :
               upi_payment_requests[rid].payment_status = "completed"
               => RecordsOf(rid) # {} /\ ReceiptsOf(rid) # {}

\* C3: a confirm that starts after a confirm on the same transaction_id has
\* succeeded selects no row, fails, and writes nothing.
C3_LaterConfirmRejected ==
    \A h \in Calls :
        calls[h].late =>
            /\ calls[h].pc \in {"select", "done"}
            /\ calls[h].paymentRequest = NoRow
            /\ calls[h].commit_no = 0
            /\ calls[h].pc = "done" => calls[h].outcome \in {"not_found", "error"}
            /\ \A i \in 1..Len(txn_log) : txn_log[i].call # h

C3_Witness ==
    \E h \in Calls : calls[h].late /\ calls[h].pc = "done" /\ calls[h].outcome = "not_found"

C5_StatusTerminal ==
    [][\A rid \in RequestIds :
          upi_payment_requests[rid].payment_status \in {"completed", "expired"}
          => upi_payment_requests'[rid].payment_status
                 = upi_payment_requests[rid].payment_status]_vars

\* C6: no request is 'completed' with paid_at later than its expires_at.
C6_NotCompletedAfterExpiry ==
    \A rid \in RequestIds :
        upi_payment_requests[rid].payment_status = "completed"
        => upi_payment_requests[rid].paid_at <= upi_payment_requests[rid].expires_at

\* C10: each payment record's balance_after is the member's balance right after
\* that payment's own UPDATE, and one member's records are in the order in which
\* their UPDATEs were committed.
\* (Stated for requests confirmed by a single call, so that a violation does not
\* rest on the double confirmation of C1.)
ConfirmedOnce(i) ==
    /\ txn_log[i].request_id # 0
    /\ Cardinality(MutationsOf(txn_log[i].request_id)) = 1

C10_SnapshotAndOrder ==
    /\ \A i \in 1..Len(txn_log) :
           ConfirmedOnce(i) => transactions[i].balance_after = txn_log[i].own_balance
    /\ \A i \in 1..Len(txn_log), j \in 1..Len(txn_log) :
           (i < j /\ ConfirmedOnce(i) /\ ConfirmedOnce(j)
            /\ transactions[i].member_id = transactions[j].member_id)
           => txn_log[i].commit_no < txn_log[j].commit_no

\* The balance delta of a purpose, as the claim states it.
BalanceDelta(purpose, amount) == IF purpose = "membership_fee" THEN 0 ELSE amount

C8_FlagsTrackCumulativeFees ==
    \A id \in 1..Len(members) :
        LET m == members[id]
        IN  /\ m.entry_fee_paid <=> m.membership_fees_paid >= EntryFeeThreshold
            /\ m.welfare_fund_paid <=> m.membership_fees_paid >= WelfareFundThreshold
            /\ m.building_fund_paid <=> m.membership_fees_paid >= BuildingFundThreshold
            /\ m.status = "active" <=> m.membership_fees_paid >= BuildingFundThreshold

\* C9: an 'active' member has all three fee flags true and membership_fees_paid
\* at or above 2400 (read once no call is in flight and no statement has failed).
C9_ActiveImpliesFeesPaid ==
    (NoCallInFlight /\ faults = 0) =>
        \A id \in 1..Len(members) :
            members[id].status = "active" =>
                /\ members[id].entry_fee_paid
                /\ members[id].welfare_fund_paid
                /\ members[id].building_fund_paid
                /\ members[id].membership_fees_paid >= BuildingFundThreshold

\* C11: in every reachable state each 'completed' payment request has exactly
\* one receipt, and each request that is 'pending' or 'expired' has none.
C11_OneReceiptPerCompleted ==
    \A rid \in RequestIds :
        IF upi_payment_requests[rid].payment_status = "completed"
        THEN Cardinality(ReceiptsOf(rid)) = 1
        ELSE ReceiptsOf(rid) = {}

\* The payment credit records of a member and the member's completed requests.
CreditRecordsOfMember(id) ==
    {i \in 1..Len(transactions) :
        transactions[i].member_id = id /\ transactions[i].transaction_type = "credit"}
CompletedRequestsOfMember(id) ==
    {rid \in RequestIds :
        /\ upi_payment_requests[rid].member_id = id
        /\ upi_payment_requests[rid].payment_status = "completed"}

\* C12: a member has as many payment credit records as 'completed' payment
\* requests (read once no confirm is in flight, the weakest reading).
C12_RecordPerCompletedRequest ==
    Quiescent =>
        \A id \in 1..Len(members) :
            Cardinality(CreditRecordsOfMember(id))
                = Cardinality(CompletedRequestsOfMember(id))

\* The stored request with transaction_id tid belongs to a member other than id.
OwnedByAnother(tid, id) ==
    \E rid \in RequestIds :
        /\ upi_payment_requests[rid].transaction_id = tid
        /\ upi_payment_requests[rid].member_id # id

\* C13: a confirm on a transaction_id whose request was created by a member
\* other than the caller selects no row, ends with the not-found failure (or a
\* failed statement) and never reaches a writing step.
C13_ConfirmOnlyByOwner ==
    \A h \in Calls :
        (calls[h].pc # "idle" /\ OwnedByAnother(calls[h].transaction_id, calls[h].caller))
        => /\ calls[h].pc \in {"select", "done"}
           /\ calls[h].paymentRequest = NoRow
           /\ calls[h].pc = "done" => calls[h].outcome \in {"not_found", "error"}

\* A receipt with number n is stored and belongs to a member other than id.
ReceiptOfAnother(n, id) ==
    \E i \in 1..Len(payment_receipts) :
        payment_receipts[i].receipt_number = n /\ payment_receipts[i].member_id # id

\* C14: the receipt route returns a receipt only to the member it belongs to;
\* asked for another member's receipt it gives the reply it gives for a receipt
\* number that does not exist.
C14_ReceiptOnlyToOwner ==
    /\ response.route = "receipt" =>
           /\ response.reply.status = 200 =>
                  /\ response.reply.data.member_id = response.caller
                  /\ response.reply.data.receipt_number = response.key
           /\ ReceiptOfAnother(response.key, response.caller) =>
                  response.reply.status \in {404, 500}
    /\ \A id \in 1..Len(members), n \in KnownReceiptNumbers, ok \in BOOLEAN :
           ReceiptOfAnother(n, id) =>
               ReceiptReply(payment_receipts, upi_payment_requests, n, id, ok)
                   = ReceiptReply(payment_receipts, upi_payment_requests,
                                  UnknownReceiptNumber, id, ok)

\* A member asked for a receipt of another member and was told it does not exist.
C14_Witness ==
    /\ response.route = "receipt"
    /\ response.reply.status = 404
    /\ ReceiptOfAnother(response.key, response.caller)

\* C18: a status read changes no stored row; it reports the stored status and
\* expiry of the caller's own request (so 'pending' even past expires_at) and
\* not-found for anything else; a stored status becomes 'expired' only in the
\* expiring step of a confirm.
C18_StatusReadOnly ==
    [][/\ (response' # response /\ response'.route = "status") =>
              /\ UNCHANGED <<members, upi_payment_requests, transactions,
                             payment_receipts, member_requests>>
              /\ response'.reply.status = 200 =>
                     \E rid \in RequestIds :
                         /\ upi_payment_requests[rid].transaction_id = response'.key
                         /\ upi_payment_requests[rid].member_id = response'.caller
                         /\ response'.reply.data.payment_status
                                = upi_payment_requests[rid].payment_status
                         /\ response'.reply.data.expires_at
                                = upi_payment_requests[rid].expires_at
              /\ OwnedByAnother(response'.key, response'.caller) =>
                     response'.reply.status \in {404, 500}
              /\ response'.key = UnknownId => response'.reply.status \in {404, 500}
       /\ \A rid \in RequestIds :
              (/\ upi_payment_requests[rid].payment_status # "expired"
               /\ upi_payment_requests'[rid].payment_status = "expired")
              => \E h \in Calls : calls[h].pc = "expire" /\ calls'[h].pc = "done"]_vars

\* A request was read past its expiry, before any confirm, and reported pending.
C18_Witness ==
    /\ response.route = "status"
    /\ response.reply.status = 200
    /\ response.reply.data.payment_status = "pending"
    /\ now > response.reply.data.expires_at
    /\ \A h \in Calls : calls[h].pc = "idle"

\* C15: the account update of a confirmed share_purchase of amount a adds
\* floor(a / 100) to share_count (2 for a = 250) and a to share_value and to
\* balance, and leaves membership_fees_paid, the three fee flags and status as
\* they were.
C15_SharePurchaseEffect ==
    [][\A h \in Calls :
          (/\ calls[h].pc = "member" /\ calls'[h].pc = "record"
           /\ calls[h].paymentRequest.purpose = "share_purchase")
          => LET a == calls[h].paymentRequest.amount
                 m == members[calls[h].paymentRequest.member_id]
                 n == members'[calls[h].paymentRequest.member_id]
             IN  /\ n.share_count * ShareUnit <= m.share_count * ShareUnit + a
                 /\ (n.share_count + 1) * ShareUnit > m.share_count * ShareUnit + a
                 /\ a = 250 => n.share_count = m.share_count + 2
                 /\ n.share_value = m.share_value + a
                 /\ n.balance = m.balance + a
                 /\ n.membership_fees_paid = m.membership_fees_paid
                 /\ n.entry_fee_paid = m.entry_fee_paid
                 /\ n.welfare_fund_paid = m.welfare_fund_paid
                 /\ n.building_fund_paid = m.building_fund_paid
                 /\ n.status = m.status]_vars

\* A share purchase of 250 has been applied to the buyer's account.
C15_Witness ==
    \E h \in Calls :
        /\ calls[h].pc = "record"
        /\ calls[h].paymentRequest.purpose = "share_purchase"
        /\ calls[h].paymentRequest.amount = 250
        /\ members[calls[h].paymentRequest.member_id].share_value
               >= DefaultShareValue + 250

C19_AcceptsExactlyValidBodies ==
    response.route = "generate" =>
        /\ response.reply.status = 400 =>
               ~(/\ response.key.amount.numeric
                 /\ response.key.amount.paise > 0
                 /\ response.key.purpose \in Purposes)
        /\ response.reply.status = 200 =>
               response.reply.data.amount > 0 /\ response.reply.data.purpose \in Purposes

\* C20: no two stored payment requests have the same transaction_id.
C20_TransactionIdsUnique ==
    \A i, j \in RequestIds :
        upi_payment_requests[i].transaction_id = upi_payment_requests[j].transaction_id
        => i = j

\* A generate drew the transaction_id of a stored request (same clock value,
\* same suffix) and was refused by the UNIQUE index, no statement having failed
\* for another reason.
C20_Witness ==
    /\ response.route = "generate"
    /\ response.reply.status = 500
    /\ faults = 0
    /\ TransactionIdTaken(response.key)
    /\ upi_payment_requests[1].created_at = now

C22_ListenAfterTest ==
    [][/\ server'.pc = "listening" => server'.connected
       /\ (server.pc = "testing") => server'.pc \in {"testing", "tested"}
       /\ (server.pc = "tested" /\ ~server.connected /\ server' # server)
              => server'.pc = "exited" /\ server'.exit_code = 1
       /\ server.pc = "exited" => server' = server
       /\ server'.pc = "exited" => server'.exit_code = 1
       /\ response.route # "none" => server.pc = "listening"
       /\ (\/ upi_payment_requests' # upi_payment_requests
           \/ response'.route # response.route) => server.pc = "listening"]_vars

\* The test answered false and the process has exited with code 1, having
\* served nothing.
C22_Witness ==
    /\ server.pc = "exited"
    /\ ~server.connected
    /\ server.exit_code = 1
    /\ response = NoResponse

\* The initial-deposit records stored.
DepositRecords == {i \in 1..Len(transactions) : transactions[i].transaction_type = "deposit"}

\* C23: when an approve call has failed and no other approve call on the same
\* request is in flight or has succeeded, no member made from the request and
\* no initial-deposit record is stored, and the request is not 'approved'.
C23_ApproveAllOrNothing ==
    \A k \in Approvals :
        (/\ approval[k].kind = "approve"
         /\ approval[k].outcome = "error"
         /\ \A j \in Approvals :
                (approval[j].kind = "approve"
                 /\ approval[j].request_id = approval[k].request_id)
                => approval[j].outcome \in {"error", "not_found"})
        => /\ Len(members) = 2
           /\ DepositRecords = {}
           /\ member_requests[approval[k].request_id].status # "approved"

\* C24: once a member request has left 'pending' its status is not written
\* again with another value, and at most one member is made from a request.
C24_RequestDecidedOnce ==
    [][/\ \A rid \in 1..Len(member_requests) :
              member_requests[rid].status # "pending"
              => member_requests'[rid].status = member_requests[rid].status
       /\ Len(members') <= 2 + Len(member_requests)]_vars

\* C25: a loan becomes Approved or Rejected only from Applied or Under Review
\* and Disbursed only from Approved, and the status of a Rejected or Disbursed
\* loan never changes, whatever the interleaving of the calls.
C25_LoanStatusTransitions ==
    [][\A id \in 1..Len(loans) :
           LET s == loans[id].status
               t == loans'[id].status IN
           s # t =>
               /\ s \notin {"Rejected", "Disbursed"}
               /\ t \in {"Approved", "Rejected"} => s \in {"Applied", "Under Review"}
               /\ t = "Disbursed" => s = "Approved"]_vars

LoanDisbursements(id) ==
    {i \in 1..Len(loan_transactions) : loan_transactions[i].reference_id = id}

\* C26: at most one loan-disbursement transaction record exists per loan, even
\* when two disburse calls for the same Approved loan run concurrently.
C26_DisbursedAtMostOnce ==
    \A id \in 1..Len(loans) : Cardinality(LoanDisbursements(id)) <= 1

DepositRecordsOf(id, transaction_type) ==
    {i \in 1..Len(deposit_transactions) :
        /\ deposit_transactions[i].reference_id = id
        /\ deposit_transactions[i].transaction_type = transaction_type}

\* C27: once a deposit is closed ('Premature Closure') no credit-interest call
\* changes its current_balance or adds an interest record, and at most one
\* withdrawal record is written per deposit, whatever the interleaving of the
\* close and credit-interest calls.
C27_ClosedDepositFrozen ==
    [][\A id \in 1..Len(deposits) :
           /\ deposits[id].status = "Premature Closure"
              => /\ deposits'[id].current_balance = deposits[id].current_balance
                 /\ DepositRecordsOf(id, "Interest Credit")' = DepositRecordsOf(id, "Interest Credit")
           /\ Cardinality(DepositRecordsOf(id, "Withdrawal")') <= 1]_vars

\* C28: once a member is 'active', the account update of a confirmed
\* membership_fee payment never sets the status back to 'pending_payment' and
\* never resets a fee flag that is already true.
C28_ActiveStaysActive ==
    [][\A h \in Calls :
          LET row == calls[h].paymentRequest
          IN  (/\ row.request_id # 0
               /\ row.purpose = "membership_fee"
               /\ calls[h].pc = "member"
               /\ calls'[h].pc = "record"
               /\ members[row.member_id].status = "active")
              => /\ members'[row.member_id].status # "pending_payment"
                 /\ members[row.member_id].entry_fee_paid
                        => members'[row.member_id].entry_fee_paid
                 /\ members[row.member_id].welfare_fund_paid
                        => members'[row.member_id].welfare_fund_paid
                 /\ members[row.member_id].building_fund_paid
                        => members'[row.member_id].building_fund_paid]_vars

ApiInFlight == api.pc \in {"fetch", "refresh", "retry"}

\* C29: a call of KafalAPI.request performs at most one token refresh and at
\* most one retry (two fetches of the endpoint), every step of a call in flight
\* is one of these at most three requests, the retry ends the call whatever it
\* brings, and a failed refresh clears both stored tokens and fails the call.
C29_OneRefreshOneRetry ==
    [][/\ api'.refreshes <= 1
       /\ api'.fetches <= 2
       /\ (ApiInFlight /\ api' # api)
          => api'.fetches + api'.refreshes = api.fetches + api.refreshes + 1
       /\ (api.pc = "retry" /\ api' # api) => api'.pc = "done"
       /\ (api.pc = "refresh" /\ api' # api /\ api'.pc # "retry")
          => /\ api'.token = "none"
             /\ api'.refreshToken = "none"
             /\ api'.pc = "done"
             /\ api'.outcome = "error"]_vars

\* C29 witness: a call ended after its one refresh and its retry, the retry
\* unauthorized again.
C29_Witness ==
    /\ api.pc = "done"
    /\ api.refreshes = 1
    /\ api.fetches = 2
    /\ api.outcome = "error_body"

\* C30: reconnectAttempts never exceeds maxReconnectAttempts, at most that
\* many reconnects are scheduled between two 'connect' events, each reconnect
\* is delayed by reconnectDelay times the attempt number, and every 'connect'
\* event sets the counter to 0.
C30_BoundedReconnects ==
    [][/\ realtime'.reconnectAttempts <= MaxReconnectAttempts
       /\ realtime'.scheduled <= MaxReconnectAttempts
       /\ realtime'.connected > realtime.connected
          => realtime'.reconnectAttempts = 0
       /\ realtime'.connected < realtime.connected
          => IF realtime.reconnectAttempts < MaxReconnectAttempts
             THEN /\ realtime'.reconnectAttempts = realtime.reconnectAttempts + 1
                  /\ \E d \in Delays :
                         /\ d = ReconnectDelay * realtime'.reconnectAttempts
                         /\ realtime'.timers =
                                [realtime.timers EXCEPT ![d] = @ + 1]
             ELSE /\ realtime'.reconnectAttempts = realtime.reconnectAttempts
                  /\ realtime'.timers = realtime.timers]_vars

\* C30 witness: six disconnects in a row, of which only five scheduled a
\* reconnect.
C30_Witness ==
    /\ realtime.reconnectAttempts = MaxReconnectAttempts
    /\ realtime.scheduled = MaxReconnectAttempts
    /\ realtime.disconnects > MaxReconnectAttempts

====
